---------------------------- MODULE Spec2Model ----------------------------
(***************************************************************************)
(* Model of the ASV monorepo scaffold generator (src/check.py).            *)
(*                                                                         *)
(* The program builds a table REPO_STRUCTURE (relative path -> content),   *)
(* and main() creates the root, calls write_file for every table entry in  *)
(* insertion order, calls chmod_executables on a fixed list, and prints a  *)
(* summary.  An exception raised by a filesystem call in the writer is not *)
(* caught anywhere: it ends the process with a non-zero exit status.       *)
(*                                                                         *)
(* The filesystem under the root is a function from paths to nodes.  A     *)
(* path is the sequence of its components; the root is the empty sequence. *)
(* The 209-entry table is represented by its first TableSize entries out   *)
(* of four taken from it verbatim: one top-level file and files below      *)
(* sibling directories that share an ancestor, two of them on the          *)
(* executable list.  Spec is one process running main() up to MaxRuns      *)
(* times; SpecOrder varies the order of the writer loop; SpecChmod adds    *)
(* direct calls of chmod_executables; SpecConc runs two processes at once. *)
(*                                                                         *)
(* The process is assumed to run as an unprivileged user with umask 022:   *)
(* a file or directory without the owner write bit cannot be written.      *)
(***************************************************************************)
EXTENDS Integers, Sequences, FiniteSets, TLC

\* ------------------------------------------------------------------ bounds

\* Number of consecutive runs of the tool against the same root.
MaxRuns == 2

\* Number of entries of the 209-entry table that the model keeps.
TableSize == 3

\* ------------------------------------------------------------- the program

Root == << >>

\* Entries of REPO_STRUCTURE, in insertion order (lines 21, 233, 235 and
\* 240 of the source).
ScaffoldEntries ==
    << [rel |-> <<"README.md">>,
        content |-> "# ASV\n\nMonorepo scaffold.\n"],
       [rel |-> <<"tools", "dev", "format.sh">>,
        content |-> "#!/usr/bin/env bash\nset -e\n# run formatters\n"],
       [rel |-> <<"tools", "git", "_commit_tag.sh">>,
        content |-> "#!/usr/bin/env bash\nset -e\n# commit helper\n"],
       [rel |-> <<"tools", "logs", "parse.py">>,
        content |-> "# parse logs\n"] >>

\* A table in which one path is an ancestor directory of another.
OverlappingTable ==
    << [rel |-> <<"README.md">>,
        content |-> "# ASV\n\nMonorepo scaffold.\n"],
       [rel |-> <<"tools", "dev">>,
        content |-> "# dev tools\n"],
       [rel |-> <<"tools", "dev", "format.sh">>,
        content |-> "#!/usr/bin/env bash\nset -e\n# run formatters\n"] >>

\* The table the writer iterates over.
REPO_STRUCTURE == SubSeq(ScaffoldEntries, 1, TableSize)

\* The paths of the list `executables` of main() that are in the table.
executables ==
    SelectSeq(<< <<"tools", "dev", "format.sh">>,
                 <<"tools", "git", "_commit_tag.sh">> >>,
              LAMBDA rp : \E i \in 1..Len(REPO_STRUCTURE) :
                              REPO_STRUCTURE[i].rel = rp)

NumEntries == Len(REPO_STRUCTURE)

TablePaths == { REPO_STRUCTURE[i].rel : i \in 1..NumEntries }

ExecPaths == { executables[i] : i \in 1..Len(executables) }

\* REPO_STRUCTURE[rel]: a dict lookup, the last insertion of a path wins.
TableContent(rel) ==
    LET last == CHOOSE i \in 1..NumEntries :
                   /\ REPO_STRUCTURE[i].rel = rel
                   /\ \A j \in 1..NumEntries :
                          REPO_STRUCTURE[j].rel = rel => j <= i
    IN  REPO_STRUCTURE[last].content

\* Path.parent
Parent(p) == IF p = Root THEN Root ELSE SubSeq(p, 1, Len(p) - 1)

\* p is d or lies below d.
Under(p, d) == Len(p) >= Len(d) /\ SubSeq(p, 1, Len(d)) = d

Ancestors(p) == { SubSeq(p, 1, k) : k \in 0..(Len(p) - 1) }

\* A file that is not part of the scaffold, inside a directory that sits
\* where the scaffold wants a file.
StrayChild == <<"README.md", "notes.txt">>

\* Every path the model's filesystem can hold.
Paths == TablePaths \cup UNION { Ancestors(p) : p \in TablePaths } \cup {StrayChild}

\* Permission bits: rwxr-xr-x, rw-r--r--, r-xr-xr-x, r--r--r--.
Mode755 == 7 * 64 + 5 * 8 + 5
Mode644 == 6 * 64 + 4 * 8 + 4
Mode555 == 5 * 64 + 5 * 8 + 5
Mode444 == 4 * 64 + 4 * 8 + 4

\* Content of a file that the user put there before the run.
CustomContent == "custom content\n"

Absent == [kind |-> "absent", content |-> "", mode |-> 0]
DirNode(m) == [kind |-> "dir", content |-> "", mode |-> m]
FileNode(c, m) == [kind |-> "file", content |-> c, mode |-> m]

\* Path.exists()
Exists(f, p) == f[p].kind # "absent"

\* Path.is_dir()
IsDir(f, p) == f[p].kind = "dir"

IsFile(f, p) == f[p].kind = "file"

\* The owner may write the node.
OwnerWritable(f, p) == (f[p].mode \div 128) % 2 = 1

\* os.mkdir(d): the error it raises, or "ok".  The parents of the root are
\* taken to exist and to be writable.
OsMkdir(f, d) ==
    IF d # Root /\ ~Exists(f, Parent(d)) THEN "ENOENT"
    ELSE IF d # Root /\ ~IsDir(f, Parent(d)) THEN "ENOTDIR"
    ELSE IF Exists(f, d) THEN "EEXIST"
    ELSE IF d # Root /\ ~OwnerWritable(f, Parent(d)) THEN "EACCES"
    ELSE "ok"

\* Path.mkdir with exist_ok=False: an existing directory is an error.
MkdirIntolerant(f, d) == FALSE

\* What Path.mkdir does with an OSError other than FileNotFoundError, given
\* exist_ok=True: the error is swallowed iff the path is a directory.
MkdirTolerates(f, d) == IsDir(f, d)

\* Path.mkdir(parents=True, exist_ok=True): try os.mkdir; on
\* FileNotFoundError make the parent the same way and retry; on any other
\* OSError succeed iff the path is a directory by now.  Directories made
\* before a failure stay.
RECURSIVE MkdirP(_, _)
MkdirP(f, d) ==
    LET e == OsMkdir(f, d) IN
    IF e = "ok" THEN [ok |-> TRUE, fs |-> [f EXCEPT ![d] = DirNode(Mode755)]]
    ELSE IF e = "ENOENT" THEN
        LET up == MkdirP(f, Parent(d)) IN
        IF ~up.ok THEN up
        ELSE IF OsMkdir(up.fs, d) = "ok"
             THEN [ok |-> TRUE, fs |-> [up.fs EXCEPT ![d] = DirNode(Mode755)]]
             ELSE [ok |-> MkdirTolerates(up.fs, d), fs |-> up.fs]
    ELSE [ok |-> MkdirTolerates(f, d), fs |-> f]

\* ensure_parent_dir(path)
ensure_parent_dir(f, path) == MkdirP(f, Parent(path))

\* write_text that opens with "a": the content lands after what was there.
WriteTextAppend(f, path, content) ==
    IF IsDir(f, path) THEN [ok |-> FALSE, fs |-> f]
    ELSE IF IsFile(f, path) THEN
        IF OwnerWritable(f, path)
        THEN [ok |-> TRUE,
              fs |-> [f EXCEPT ![path].content = f[path].content \o content]]
        ELSE [ok |-> FALSE, fs |-> f]
    ELSE IF IsDir(f, Parent(path)) /\ OwnerWritable(f, Parent(path))
        THEN [ok |-> TRUE, fs |-> [f EXCEPT ![path] = FileNode(content, Mode644)]]
        ELSE [ok |-> FALSE, fs |-> f]

\* write_text that first removes a directory found at the path.
WriteTextReplacesDir(f, path, content) ==
    IF IsFile(f, path) /\ ~OwnerWritable(f, path) THEN [ok |-> FALSE, fs |-> f]
    ELSE IF IsFile(f, path)
        THEN [ok |-> TRUE, fs |-> [f EXCEPT ![path].content = content]]
    ELSE IF IsDir(f, Parent(path)) /\ OwnerWritable(f, Parent(path))
        THEN [ok |-> TRUE,
              fs |-> [q \in Paths |->
                        IF q = path THEN FileNode(content, Mode644)
                        ELSE IF Under(q, path) THEN Absent
                        ELSE f[q]]]
        ELSE [ok |-> FALSE, fs |-> f]

\* Path.write_text(content): open(path, "w") creates or truncates, then the
\* content is written.  Fails on a directory, on a read-only file and when
\* the file must be created in a read-only directory.
WriteText(f, path, content) ==
    IF IsDir(f, path) THEN [ok |-> FALSE, fs |-> f]
    ELSE IF IsFile(f, path) THEN
        IF OwnerWritable(f, path)
        THEN [ok |-> TRUE, fs |-> [f EXCEPT ![path].content = content]]
        ELSE [ok |-> FALSE, fs |-> f]
    ELSE IF IsDir(f, Parent(path)) /\ OwnerWritable(f, Parent(path))
        THEN [ok |-> TRUE, fs |-> [f EXCEPT ![path] = FileNode(content, Mode644)]]
        ELSE [ok |-> FALSE, fs |-> f]

\* write_file without the test: every entry is written.
SkipNever(f, path, ow) == FALSE

\* write_file with the test on the wrong flag value.
SkipWhenOverwrite(f, path, ow) == Exists(f, path) /\ ow

\* write_file with the existence test negated.
SkipMissing(f, path, ow) == ~Exists(f, path) /\ ~ow

\* The test of write_file that decides to leave the path alone.
SkipExisting(f, path, ow) == Exists(f, path) /\ ~ow

\* write_file(path, content, overwrite); wrote tells whether write_text ran
\* to completion.
write_file(f, path, content, ow) ==
    LET made == ensure_parent_dir(f, path) IN
    IF ~made.ok THEN [ok |-> FALSE, fs |-> made.fs, wrote |-> FALSE]
    ELSE IF SkipExisting(made.fs, path, ow)
         THEN [ok |-> TRUE, fs |-> made.fs, wrote |-> FALSE]
         ELSE LET w == WriteText(made.fs, path, content) IN
              [ok |-> w.ok, fs |-> w.fs, wrote |-> w.ok]

\* chmod(0o744): execute permission for the owner only.
ChmodOwnerOnly(f, p) == [f EXCEPT ![p].mode = 7 * 64 + 4 * 8 + 4]

\* p.chmod(0o755)
Chmod(f, p) == [f EXCEPT ![p].mode = Mode755]


\* ------------------------------------------------------------------- state

VARIABLES
    fs,          \* the filesystem under (and including) the root
    flags,       \* args.overwrite of every run so far; the last is current
    order,       \* the order in which the writer loop visits the table
    entry,       \* the function that was called: "main" or "chmod_executables"
    pc,          \* position of the sequential run
    idx,         \* loop index of the writer loop or of the chmod loop
    exit,        \* exit status of the run: -1 while it runs
    printed,     \* the summary of the current run has been printed
    fs0,         \* history: the filesystem before the first run
    pre,         \* history: the filesystem when the current run started
    written,     \* history: paths write_text completed on in the current run
    attempted,   \* history: paths chmod was called on in the current run
    chmodFailed, \* history: paths whose chmod raised in the current run
    cpc,         \* concurrent runs: position of each process
    cidx,        \* concurrent runs: loop index of each process
    cmk          \* concurrent runs: directories each process has yet to make

seqvars == <<flags, order, entry, pc, idx, exit, printed, fs0, pre, written,
             attempted, chmodFailed>>
concvars == <<cpc, cidx, cmk>>
vars == <<fs, seqvars, concvars>>

Procs == {1, 2}

\* args.overwrite of the current run
overwrite == flags[Len(flags)]

run == Len(flags)

\* --------------------------------------------------- initial filesystems

Kinds == {"absent", "file", "dir"}

\* Nothing exists below a path that is not a directory.
WellFormed(k) ==
    \A p \in Paths : p # Root /\ k[p] # "absent" => k[Parent(p)] = "dir"

\* Paths that may be read-only before the first run.
ReadOnlyCandidates == {Root} \cup TablePaths

\* The filesystem with the given kinds: files hold the user's content;
\* everything has the umask-022 default mode except the read-only nodes.
MakeFs(k, ro) ==
    [p \in Paths |->
        IF k[p] = "dir" THEN DirNode(IF p \in ro THEN Mode555 ELSE Mode755)
        ELSE IF k[p] = "file"
             THEN FileNode(CustomContent, IF p \in ro THEN Mode444 ELSE Mode644)
             ELSE Absent]

\* Any tree under the root, with at most one read-only node.
InitialFilesystems ==
    { MakeFs(k, ro) : k \in { kk \in [Paths -> Kinds] : WellFormed(kk) },
                      ro \in {{}} \cup { {c} : c \in ReadOnlyCandidates } }

\* The root does not exist, or is a directory with nothing in it.
EmptyRoot(f) ==
    /\ \A p \in Paths \ {Root} : ~Exists(f, p)
    /\ f[Root].kind # "file"

\* An empty root that is not read-only.
EmptyWritableRoot(f) ==
    /\ EmptyRoot(f)
    /\ Exists(f, Root) => OwnerWritable(f, Root)

TableOrder == [i \in 1..NumEntries |-> i]

Orders == { s \in [1..NumEntries -> 1..NumEntries] :
                    \A i, j \in 1..NumEntries : i # j => s[i] # s[j] }

ConcIdle ==
    /\ cpc = [p \in Procs |-> "idle"]
    /\ cidx = [p \in Procs |-> 0]
    /\ cmk = [p \in Procs |-> << >>]

InitCommon ==
    /\ fs \in InitialFilesystems
    /\ fs0 = fs
    /\ pre = fs
    /\ flags \in { <<ow>> : ow \in BOOLEAN }
    /\ idx = 1
    /\ exit = -1
    /\ printed = FALSE
    /\ written = {}
    /\ attempted = {}
    /\ chmodFailed = {}
    /\ ConcIdle

\* python scaffold_asv_repo.py --root R [--overwrite]
Init ==
    /\ InitCommon
    /\ order = TableOrder
    /\ entry = "main"
    /\ pc = "start"

\* ------------------------------------------------------------------ main()

\* The error is reported but the process still exits with status 0.
FailWithStatusZero ==
    /\ pc' = "failed"
    /\ exit' = 0

\* An uncaught exception ends the process with exit status 1.
Fail ==
    /\ pc' = "failed"
    /\ exit' = 1

\* root.mkdir(parents=True, exist_ok=True)
RootMkdir ==
    /\ pc = "start"
    /\ LET r == MkdirP(fs, Root) IN
       /\ fs' = r.fs
       /\ IF r.ok THEN pc' = "write" /\ exit' = exit ELSE Fail
    /\ idx' = 1
    /\ UNCHANGED <<flags, order, entry, printed, fs0, pre, written, attempted,
                   chmodFailed, concvars>>

\* One iteration of: for rel, content in REPO_STRUCTURE.items():
\*                       write_file(root / rel, content, overwrite)
WriteFile ==
    /\ pc = "write"
    /\ LET e == REPO_STRUCTURE[order[idx]]
           r == write_file(fs, e.rel, TableContent(e.rel), overwrite)
       IN
       /\ fs' = r.fs
       /\ written' = IF r.wrote THEN written \cup {e.rel} ELSE written
       /\ IF ~r.ok THEN Fail /\ idx' = idx
          ELSE /\ exit' = exit
               /\ IF idx < NumEntries
                  THEN pc' = pc /\ idx' = idx + 1
                  ELSE pc' = "chmod" /\ idx' = 1
    /\ UNCHANGED <<flags, order, entry, printed, fs0, pre, attempted,
                   chmodFailed, concvars>>

\* No try/except around chmod: the error propagates.
ChmodErrorPropagates == FALSE

\* except Exception: pass  -- an error raised by chmod is swallowed.
ChmodErrorCaught == TRUE

\* One iteration of the loop of chmod_executables.
ChmodOne ==
    /\ pc = "chmod"
    /\ LET rp == executables[idx] IN
       IF Exists(fs, rp)
       THEN \E raised \in BOOLEAN :
              /\ fs' = IF raised THEN fs ELSE Chmod(fs, rp)
              /\ attempted' = attempted \cup {rp}
              /\ chmodFailed' = IF raised THEN chmodFailed \cup {rp}
                                ELSE chmodFailed
              /\ IF raised /\ ~ChmodErrorCaught THEN Fail /\ idx' = idx
                 ELSE /\ exit' = exit
                      /\ IF idx < Len(executables)
                         THEN pc' = pc /\ idx' = idx + 1
                         ELSE /\ idx' = 1
                              /\ pc' = IF entry = "main" THEN "summary"
                                       ELSE "returned"
       ELSE /\ UNCHANGED <<fs, attempted, chmodFailed, exit>>
            /\ IF idx < Len(executables)
               THEN pc' = pc /\ idx' = idx + 1
               ELSE /\ idx' = 1
                    /\ pc' = IF entry = "main" THEN "summary" ELSE "returned"
    /\ UNCHANGED <<flags, order, entry, printed, fs0, pre, written, concvars>>

\* The print calls that end main(); the process then exits with status 0.
PrintSummary ==
    /\ pc = "summary"
    /\ printed' = TRUE
    /\ pc' = "done"
    /\ exit' = 0
    /\ UNCHANGED <<fs, flags, order, entry, idx, fs0, pre, written, attempted,
                   chmodFailed, concvars>>

\* The user runs the tool again against the same root.
Rerun ==
    /\ entry = "main"
    /\ pc \in {"done", "failed"}
    /\ run < MaxRuns
    /\ \E ow \in BOOLEAN : flags' = Append(flags, ow)
    /\ pc' = "start"
    /\ idx' = 1
    /\ exit' = -1
    /\ printed' = FALSE
    /\ pre' = fs
    /\ written' = {}
    /\ attempted' = {}
    /\ chmodFailed' = {}
    /\ UNCHANGED <<fs, order, entry, fs0, concvars>>

Next == RootMkdir \/ WriteFile \/ ChmodOne \/ PrintSummary \/ Rerun

Spec == Init /\ [][Next]_vars

\* --------------------------------------- the writer with the order varied

\* The writer loop of main(), visiting the table in any order.
InitOrder ==
    /\ InitCommon
    /\ order \in Orders
    /\ entry = "main"
    /\ pc = "start"

NextOrder == RootMkdir \/ WriteFile

SpecOrder == InitOrder /\ [][NextOrder]_vars

\* ----------------------------------- chmod_executables called on its own

\* main(), or chmod_executables(root, executables) called directly on an
\* arbitrary tree.
InitDirect ==
    /\ InitCommon
    /\ order = TableOrder
    /\ entry = "chmod_executables"
    /\ pc = "chmod"

SpecChmod == (Init \/ InitDirect) /\ [][Next]_vars

\* ------------------------------------------- two runs at the same time

\* Two processes run main() against the same empty root with the same
\* flag.  Every step is one system call (os.mkdir, stat, open, write with
\* close, chmod); nothing is ever deleted, so a stat that follows a failed
\* os.mkdir is taken together with it.
InitConc ==
    /\ fs \in { f \in InitialFilesystems : EmptyWritableRoot(f) }
    /\ fs0 = fs
    /\ pre = fs
    /\ flags \in { <<ow>> : ow \in BOOLEAN }
    /\ order = TableOrder
    /\ entry = "main"
    /\ pc = "concurrent"
    /\ idx = 1
    /\ exit = -1
    /\ printed = FALSE
    /\ written = {}
    /\ attempted = {}
    /\ chmodFailed = {}
    /\ cpc = [p \in Procs |-> "start"]
    /\ cidx = [p \in Procs |-> 1]
    /\ cmk = [p \in Procs |-> << >>]

\* The path of the entry process p is at.
CRel(p) == REPO_STRUCTURE[cidx[p]].rel

\* Process p goes on to the next table entry, or to the chmod loop.
CAdvance(p) ==
    IF cidx[p] < NumEntries
    THEN /\ cidx' = [cidx EXCEPT ![p] = cidx[p] + 1]
         /\ cpc' = [cpc EXCEPT ![p] = "mkdir"]
         /\ cmk' = [cmk EXCEPT
                      ![p] = <<Parent(REPO_STRUCTURE[cidx[p] + 1].rel)>>]
    ELSE /\ cidx' = [cidx EXCEPT ![p] = 1]
         /\ cpc' = [cpc EXCEPT ![p] = "chmod"]
         /\ cmk' = [cmk EXCEPT ![p] = << >>]

CFail(p) ==
    /\ cpc' = [cpc EXCEPT ![p] = "failed"]
    /\ UNCHANGED <<cidx, cmk>>

\* root.mkdir(parents=True, exist_ok=True): one os.mkdir call.
CStart(p) ==
    /\ cpc[p] = "start"
    /\ LET r == MkdirP(fs, Root) IN
       /\ fs' = r.fs
       /\ IF r.ok
          THEN /\ cpc' = [cpc EXCEPT ![p] = "mkdir"]
               /\ cmk' = [cmk EXCEPT ![p] = <<Parent(REPO_STRUCTURE[1].rel)>>]
               /\ cidx' = cidx
          ELSE CFail(p)
    /\ UNCHANGED seqvars

\* One os.mkdir call of ensure_parent_dir: cmk[p] holds the directory
\* asked for and, above it, the ancestors found missing so far.
CMkdir(p) ==
    /\ cpc[p] = "mkdir"
    /\ LET d == Head(cmk[p])
           e == OsMkdir(fs, d)
           rest == Tail(cmk[p])
           popped == /\ cmk' = [cmk EXCEPT ![p] = rest]
                     /\ cpc' = [cpc EXCEPT
                                  ![p] = IF rest = << >> THEN "exists"
                                         ELSE "mkdir"]
                     /\ cidx' = cidx
       IN
       IF e = "ok"
       THEN fs' = [fs EXCEPT ![d] = DirNode(Mode755)] /\ popped
       ELSE IF e = "ENOENT"
       THEN /\ fs' = fs
            /\ cmk' = [cmk EXCEPT ![p] = <<Parent(d)>> \o cmk[p]]
            /\ UNCHANGED <<cpc, cidx>>
       ELSE /\ fs' = fs
            /\ IF MkdirTolerates(fs, d) THEN popped ELSE CFail(p)
    /\ UNCHANGED seqvars

\* if path.exists() and not overwrite: return
CExists(p) ==
    /\ cpc[p] = "exists"
    /\ IF SkipExisting(fs, CRel(p), overwrite)
       THEN CAdvance(p)
       ELSE cpc' = [cpc EXCEPT ![p] = "open"] /\ UNCHANGED <<cidx, cmk>>
    /\ UNCHANGED <<fs, seqvars>>

\* The open(path, "w") of write_text: creates the file or truncates it.
COpen(p) ==
    /\ cpc[p] = "open"
    /\ LET r == WriteText(fs, CRel(p), "") IN
       /\ fs' = r.fs
       /\ IF r.ok
          THEN cpc' = [cpc EXCEPT ![p] = "write"] /\ UNCHANGED <<cidx, cmk>>
          ELSE CFail(p)
    /\ UNCHANGED seqvars

\* The write and close of write_text, on the file opened before.
CWrite(p) ==
    /\ cpc[p] = "write"
    /\ fs' = [fs EXCEPT ![CRel(p)].content = TableContent(CRel(p))]
    /\ CAdvance(p)
    /\ UNCHANGED seqvars

\* One iteration of the loop of chmod_executables.
CChmod(p) ==
    /\ cpc[p] = "chmod"
    /\ LET rp == executables[cidx[p]] IN
       IF Exists(fs, rp)
       THEN \E raised \in BOOLEAN :
              fs' = IF raised \/ ~ChmodErrorCaught THEN fs ELSE Chmod(fs, rp)
       ELSE fs' = fs
    /\ IF cidx[p] < Len(executables)
       THEN cidx' = [cidx EXCEPT ![p] = cidx[p] + 1] /\ cpc' = cpc
       ELSE cidx' = [cidx EXCEPT ![p] = 1]
            /\ cpc' = [cpc EXCEPT ![p] = "summary"]
    /\ UNCHANGED <<cmk, seqvars>>

\* The print calls that end main().
CSummary(p) ==
    /\ cpc[p] = "summary"
    /\ cpc' = [cpc EXCEPT ![p] = "done"]
    /\ UNCHANGED <<fs, cidx, cmk, seqvars>>

NextConc ==
    \E p \in Procs :
        \/ CStart(p)
        \/ CMkdir(p)
        \/ CExists(p)
        \/ COpen(p)
        \/ CWrite(p)
        \/ CChmod(p)
        \/ CSummary(p)

SpecConc == InitConc /\ [][NextConc]_vars

\* ------------------------------------------------- reference computations

\* The writer loop as a function: the entries of tbl from position i on,
\* written in sequence, stopping at the first failure.
RECURSIVE WriteAll(_, _, _, _)
WriteAll(f, tbl, i, ow) ==
    IF i > Len(tbl) THEN [ok |-> TRUE, fs |-> f]
    ELSE LET r == write_file(f, tbl[i].rel, tbl[i].content, ow) IN
         IF r.ok THEN WriteAll(r.fs, tbl, i + 1, ow)
         ELSE [ok |-> FALSE, fs |-> r.fs]

\* Root creation and the writer loop over the table in insertion order.
WriterInTableOrder(f, ow) ==
    LET r == MkdirP(f, Root) IN
    IF r.ok THEN WriteAll(r.fs, REPO_STRUCTURE, 1, ow) ELSE r

\* Same files, directories and file contents (modes aside).
SameTree(f, g) ==
    \A p \in Paths : f[p].kind = g[p].kind /\ f[p].content = g[p].content

\* p is a file holding exactly the table's content for p.
HasTableContent(f, p) == IsFile(f, p) /\ f[p].content = TableContent(p)

\* Every table path is a file with its table content below directories.
Complete(f) ==
    \A p \in TablePaths :
        /\ HasTableContent(f, p)
        /\ \A a \in Ancestors(p) : IsDir(f, a)

\* The entry the writer loop is at.
CurrentRel == REPO_STRUCTURE[order[idx]].rel

\* The table paths of the entries the writer loop has not passed.
NotYetProcessed ==
    IF pc = "start" THEN TablePaths
    ELSE IF pc \in {"write", "failed"}
         THEN { REPO_STRUCTURE[order[j]].rel : j \in idx..NumEntries }
         ELSE {}

\* ---------------------------------------------------------------- claims

\* C1 as stated: after a completed run with overwrite=false from ANY initial
\* filesystem, a table file that existed keeps its content and every other
\* table path is a file with its table content.
C1_AsClaimed ==
    (entry = "main" /\ pc = "done" /\ ~overwrite) =>
        \A p \in TablePaths :
            IsFile(pre, p) =>
                /\ IsFile(fs, p) /\ fs[p].content = pre[p].content
                /\ \A q \in TablePaths \ {p} : HasTableContent(fs, q)

\* C1 (amended): with overwrite=false a table path that existed as a file
\* before the run keeps its content at every point of the run; and when the
\* run finishes without a filesystem error, every table path that did not
\* exist before the run is a file with its table content.
C1_NonDestructive ==
    (entry = "main" /\ ~overwrite) =>
        /\ \A p \in TablePaths :
              IsFile(pre, p) =>
                  IsFile(fs, p) /\ fs[p].content = pre[p].content
        /\ pc = "done" =>
              \A q \in TablePaths : ~Exists(pre, q) => HasTableContent(fs, q)

C1_Witness ==
    /\ entry = "main" /\ pc = "done" /\ ~overwrite /\ run = 1
    /\ \E p \in TablePaths :
          /\ IsFile(pre, p) /\ fs[p].content = CustomContent
          /\ \A q \in TablePaths \ {p} :
                ~Exists(pre, q) /\ HasTableContent(fs, q)

\* C2: a run (either overwrite value) against an empty root that finishes
\* without a filesystem error leaves every table path as a file with exactly
\* its table content, below ancestor directories that all exist.
C2_Completeness ==
    (entry = "main" /\ pc = "done" /\ EmptyRoot(pre)) => Complete(fs)

C2_Witness ==
    /\ entry = "main" /\ pc = "done" /\ run = 1
    /\ ~Exists(pre, Root)
    /\ Complete(fs)
    /\ written = TablePaths

\* C3: when the tool is run repeatedly with overwrite=false against an
\* initially empty root, a run after the first changes no file, directory
\* or content and performs no write.
C3_Idempotent ==
    (/\ entry = "main" /\ run >= 2
     /\ EmptyRoot(fs0)
     /\ \A i \in 1..run : ~flags[i]) =>
        SameTree(fs, pre) /\ written = {}

C3_Witness ==
    /\ entry = "main" /\ run = 2 /\ pc = "done"
    /\ EmptyRoot(fs0) /\ flags = <<FALSE, FALSE>>
    /\ Complete(fs) /\ Complete(pre)

\* C4 as stated: from ANY initial filesystem, when a run with overwrite=true
\* is over, a table path that was a file holds exactly its table content.
C4_AsClaimed ==
    (entry = "main" /\ pc \in {"done", "failed"} /\ overwrite) =>
        \A p \in TablePaths : IsFile(pre, p) => HasTableContent(fs, p)

\* C4 (amended): when a run with overwrite=true finishes without a
\* filesystem error, every table path that was a file before the run holds
\* exactly its table content.
C4_OverwriteRefreshes ==
    (entry = "main" /\ pc = "done" /\ overwrite) =>
        \A p \in TablePaths : IsFile(pre, p) => HasTableContent(fs, p)

C4_Witness ==
    /\ entry = "main" /\ pc = "done" /\ overwrite /\ run = 1
    /\ \E p \in TablePaths :
          /\ IsFile(pre, p) /\ pre[p].content = CustomContent
          /\ fs[p].content = TableContent(p)

\* The chmod loop has run to its end.
SetterFinished == pc \in {"summary", "done", "returned"}

\* C5: whatever subset of the chmod calls raises, the run does not fail in
\* the Permission Setter, every listed path that exists has been attempted
\* when the loop ends, the run ends with the summary printed and exit
\* status zero, and no step of the Permission Setter changes a file's
\* content or the set of files and directories.
C5_PermissionFailuresNonFatal ==
    /\ [](/\ chmodFailed # {} => pc # "failed"
          /\ pc = "failed" => attempted = {}
          /\ SetterFinished =>
                attempted = { rp \in ExecPaths : Exists(fs, rp) }
          /\ pc = "done" => exit = 0 /\ printed)
    /\ [][pc = "chmod" => SameTree(fs', fs) /\ pc' # "failed"]_vars

C5_Witness ==
    /\ entry = "main" /\ pc = "done" /\ exit = 0 /\ printed
    /\ chmodFailed = ExecPaths
    /\ attempted = ExecPaths
    /\ Cardinality(ExecPaths) >= 2

\* C6: a failure of directory creation or of the file write ends the run at
\* that entry with a non-zero exit status: no entry from the failing one on
\* is written, the Permission Setter does not run (it runs only once every
\* table path has been processed and exists), the summary is not printed,
\* the files written for earlier entries stay on disk with their content,
\* and nothing on disk changes after the failure.
C6_FatalFailureAborts ==
    /\ [](/\ pc = "failed" =>
                /\ exit # 0
                /\ ~printed
                /\ attempted = {} /\ chmodFailed = {}
                /\ written \cap NotYetProcessed = {}
                /\ \A p \in NotYetProcessed \ {CurrentRel} : fs[p] = pre[p]
                /\ \A p \in written : HasTableContent(fs, p)
          /\ (entry = "main" /\ (pc = "chmod" \/ attempted # {})) =>
                /\ NotYetProcessed = {}
                /\ \A p \in TablePaths : p \in written \/ Exists(pre, p)
                /\ \A p \in TablePaths : Exists(fs, p)
          /\ printed => pc = "done" /\ exit = 0)
    /\ [][pc = "failed" => fs' = fs /\ written' \subseteq written]_vars

C6_Witness ==
    /\ pc = "failed" /\ exit = 1 /\ ~printed
    /\ idx > 1
    /\ written # {}
    /\ \E p \in NotYetProcessed \ {CurrentRel} : ~Exists(fs, p)

\* C7: a directory found at a table path before the run is still a
\* directory afterwards, with everything below it as it was, for either
\* overwrite value; with overwrite=false the entry is skipped without error
\* (the run never fails at such an entry).
C7_DirectoryPreserved ==
    /\ \A p \in TablePaths :
          (entry = "main" /\ IsDir(pre, p)) =>
              /\ IsDir(fs, p)
              /\ \A q \in Paths \ {p} : Under(q, p) => fs[q] = pre[q]
    /\ (entry = "main" /\ pc = "failed" /\ ~overwrite) =>
          ~IsDir(pre, CurrentRel)

C7_Witness ==
    /\ entry = "main" /\ pc = "done" /\ ~overwrite /\ run = 1
    /\ IsDir(pre, <<"README.md">>) /\ IsFile(pre, StrayChild)
    /\ IsDir(fs, <<"README.md">>) /\ fs[StrayChild] = pre[StrayChild]
    /\ written = TablePaths \ {<<"README.md">>}

\* C9: when no chmod call fails, every listed path that exists has mode
\* rwxr-xr-x once the Permission Setter is through, whether the Writer wrote
\* it in this run or skipped it; a step on a listed path that does not exist
\* changes nothing; and no step changes the node of a path outside the list.
C9_ExecutableMarking ==
    /\ []((SetterFinished /\ chmodFailed = {}) =>
            \A rp \in ExecPaths : Exists(fs, rp) => fs[rp].mode = Mode755)
    /\ [][pc = "chmod" =>
            /\ \A p \in Paths \ ExecPaths : fs'[p] = fs[p]
            /\ ~Exists(fs, executables[idx]) => fs' = fs
            /\ SameTree(fs', fs)]_vars

C9_Witness ==
    /\ entry = "main" /\ pc = "done" /\ chmodFailed = {}
    /\ \E a, b \in ExecPaths :
          /\ a \in written /\ fs[a].mode = Mode755
          /\ b \notin written /\ IsFile(pre, b) /\ pre[b].mode # Mode755
          /\ fs[b].mode = Mode755
    /\ \A p \in Paths \ ExecPaths : IsFile(fs, p) => fs[p].mode # Mode755

C8_ConcurrentRunsTolerated ==
    ~overwrite =>
        /\ \A p \in Procs : cpc[p] # "failed"
        /\ (\A p \in Procs : cpc[p] = "done") =>
              /\ SameTree(fs, WriterInTableOrder(fs0, FALSE).fs)
              /\ Complete(fs)

\* Both runs found the same file missing and both write it.
C8_Witness ==
    /\ ~overwrite
    /\ ~Exists(fs0, Root)
    /\ \A p \in Procs : cpc[p] = "write" /\ CRel(p) = <<"tools", "dev", "format.sh">>

=============================================================================
